---- MODULE Spec2Model ----
(***************************************************************************)
(* The OpenAPI generator's three analyzers (fastapi-analyzer.py,           *)
(* flask-analyzer.py, spring-analyzer.py): analyze() walks the files of a  *)
(* directory and collects endpoints and schemas, generate_openapi() folds  *)
(* the endpoints into the document.  Text is modelled as sequences of      *)
(* one-character strings so that the regular expressions and the string    *)
(* operations of the scripts are computed, not assumed.                    *)
(***************************************************************************)
EXTENDS Integers, Sequences, FiniteSets, TLC

VARIABLES
    frontend,   \* which script runs: "flask" | "fastapi" | "spring"
    pc,         \* "analyze" (inside analyze's loop) | "generate" | "done" | "raised"
    files,      \* the files handed to _analyze_file so far, in enumeration order
    endpoints,  \* self.endpoints of the analyzer
    schemas,    \* self.schemas of the analyzer
    stderr,     \* the warnings printed to sys.stderr, in order
    doc,        \* the dictionary generate_openapi returned (NoDoc before)
    normIn,     \* path template under conversion (SpecNormalize)
    normOut,    \* the results of converting it once and twice (SpecNormalize)
    typeIn,     \* type annotation / Java type under mapping (SpecTypes)
    typeOut     \* what the type mapping returned for it (SpecTypes)

vars == <<frontend, pc, files, endpoints, schemas, stderr, doc, normIn, normOut,
          typeIn, typeOut>>

\* Python's None; no input text is spelled like it.
None == "None"

(***************************************************************************)
(* Bounds                                                                  *)
(***************************************************************************)
\* Files per run.
MaxFiles == 2
\* Length of the path templates of SpecNormalize.
MaxPathLen == 5
\* Nesting depth of the type annotations of SpecTypes (a name has depth 1).
MaxTypeDepth == 3

(***************************************************************************)
(* Text helpers                                                            *)
(***************************************************************************)
\* The characters regex \w matches, among those the inputs use.
WordChars ==
    {"a", "b", "c", "d", "e", "g", "i", "k", "l", "m", "n", "o", "p", "q", "r",
     "s", "t", "u", "v", "w", "x", "1", "_"}

\* str.upper() / str.lower() on the method names the inputs use.
Upper(s) ==
    CASE s \in {"get", "Get", "GET"} -> "GET"
      [] s \in {"post", "Post", "POST"} -> "POST"
      [] s \in {"put", "Put", "PUT"} -> "PUT"
      [] s \in {"delete", "Delete", "DELETE"} -> "DELETE"
      [] s \in {"patch", "Patch", "PATCH"} -> "PATCH"
      [] s \in {"request", "Request", "REQUEST"} -> "REQUEST"
      [] s \in {"connect", "CONNECT"} -> "CONNECT"
      [] OTHER -> s

Lower(s) ==
    CASE s \in {"get", "Get", "GET"} -> "get"
      [] s \in {"post", "Post", "POST"} -> "post"
      [] s \in {"put", "Put", "PUT"} -> "put"
      [] s \in {"delete", "Delete", "DELETE"} -> "delete"
      [] s \in {"patch", "Patch", "PATCH"} -> "patch"
      [] s \in {"request", "Request", "REQUEST"} -> "request"
      [] s \in {"connect", "CONNECT"} -> "connect"
      [] OTHER -> s

\* str.replace('/', '-')
ReplaceSlash(s) == [i \in 1..Len(s) |-> IF s[i] = "/" THEN "-" ELSE s[i]]

\* needle in haystack, for strings
Contains(hay, needle) ==
    \E i \in 1..(Len(hay) - Len(needle) + 1) :
        SubSeq(hay, i, i + Len(needle) - 1) = needle

\* Length of the longest run of \w characters of s that starts at position i.
RECURSIVE WordRun(_, _)
WordRun(s, i) ==
    IF i <= Len(s) /\ s[i] \in WordChars THEN 1 + WordRun(s, i + 1) ELSE 0

(***************************************************************************)
(* flask-analyzer.py                                                       *)
(***************************************************************************)
\* One attempt of the pattern <(\w+):?(\w+)?> at position i of s.  \w+ is
\* greedy and the character after a maximal run is no word character, so the
\* only way to match is: '<', a maximal non-empty run (group 1), an optional
\* ':', a maximal possibly empty run (group 2; it did not participate when
\* empty, which findall and the template \2 both render as ''), '>'.
FlaskPlaceholderAt(s, i) ==
    LET r1 == WordRun(s, i + 1)
        j  == i + 1 + r1
        j2 == IF j <= Len(s) /\ s[j] = ":" THEN j + 1 ELSE j
        r2 == WordRun(s, j2)
        k  == j2 + r2
    IN  IF i <= Len(s) /\ s[i] = "<" /\ r1 >= 1 /\ k <= Len(s) /\ s[k] = ">"
        THEN [ok |-> TRUE, g1 |-> SubSeq(s, i + 1, i + r1),
              g2 |-> SubSeq(s, j2, k - 1), end |-> k]
        ELSE [ok |-> FALSE, g1 |-> <<>>, g2 |-> <<>>, end |-> i]

\* re.findall(r'<(\w+):?(\w+)?>', s) scanning from position i: the pairs
\* (group 1, group 2) of the non-overlapping matches, left to right.
RECURSIVE FlaskFindAll(_, _)
FlaskFindAll(s, i) ==
    IF i > Len(s) THEN <<>>
    ELSE LET m == FlaskPlaceholderAt(s, i)
         IN  IF m.ok THEN <<<<m.g1, m.g2>>>> \o FlaskFindAll(s, m.end + 1)
             ELSE FlaskFindAll(s, i + 1)

\* re.sub(r'<(\w+):?(\w+)?>', r'{\2}', s) scanning from position i.
RECURSIVE FlaskSub(_, _)
FlaskSub(s, i) ==
    IF i > Len(s) THEN <<>>
    ELSE LET m == FlaskPlaceholderAt(s, i)
         IN  IF m.ok THEN <<"{">> \o m.g2 \o <<"}">> \o FlaskSub(s, m.end + 1)
             ELSE <<s[i]>> \o FlaskSub(s, i + 1)

\* The substitution with the template '<\2>': the type is stripped and the
\* angle brackets are kept.
RECURSIVE FlaskSubKeepAngles(_, _)
FlaskSubKeepAngles(s, i) ==
    IF i > Len(s) THEN <<>>
    ELSE LET m == FlaskPlaceholderAt(s, i)
         IN  IF m.ok THEN <<"<">> \o m.g2 \o <<">">> \o FlaskSubKeepAngles(s, m.end + 1)
             ELSE <<s[i]>> \o FlaskSubKeepAngles(s, i + 1)

ConvertedPathKeepAngles(path) == FlaskSubKeepAngles(path, 1)

\* converted_path of generate_openapi
ConvertedPath(path) == FlaskSub(path, 1)

\* _flask_type_to_openapi (the inputs are lower case already)
FlaskTypeToOpenapi(flask_type) ==
    CASE flask_type = <<"s", "t", "r", "i", "n", "g">> -> "string"
      [] flask_type = <<"i", "n", "t">> -> "integer"
      [] flask_type = <<"f", "l", "o", "a", "t">> -> "number"
      [] flask_type = <<"p", "a", "t", "h">> -> "string"
      [] flask_type = <<"u", "u", "i", "d">> -> "string"
      [] flask_type = <<"a", "n", "y">> -> "string"
      [] OTHER -> "string"

\* node.name.replace('_', ' ').title() of _extract_summary, on the function
\* names the inputs use.
FlaskExtractSummary(name) ==
    CASE name = "ping" -> "Ping"
      [] name = "get_item" -> "Get Item"
      [] OTHER -> name

\* _get_route_decorator: the first decorator that is a call of an attribute
\* named route; NoDecorator when there is none.
NoDecorator == [attr |-> "", arg0 |-> [kind |-> "absent", val |-> <<>>],
                methods |-> [kind |-> "absent", elts |-> <<>>]]

RECURSIVE FlaskGetRouteDecorator(_, _)
FlaskGetRouteDecorator(decorators, i) ==
    IF i > Len(decorators) THEN NoDecorator
    ELSE IF decorators[i].attr = "route" THEN decorators[i]
    ELSE FlaskGetRouteDecorator(decorators, i + 1)

\* _parse_route_decorator: path is '/' unless the first positional argument
\* is an ast.Constant (of any type); methods is ['GET'] unless the methods
\* keyword is a list, whose constant elements are taken.
FlaskParseRouteDecorator(decorator) ==
    [path     |-> IF decorator.arg0.kind \in {"str", "int"}
                  THEN decorator.arg0.val ELSE <<"/">>,
     pathType |-> IF decorator.arg0.kind = "int" THEN "int" ELSE "str",
     methods  |-> IF decorator.methods.kind = "list"
                  THEN decorator.methods.elts ELSE <<"GET">>]

\* FlaskVisitor.visit_FunctionDef on the function at position line of the
\* file called file: one endpoint per method of the route decorator.
FlaskVisitFunctionDef(file, line, node) ==
    LET route_decorator == FlaskGetRouteDecorator(node.decorators, 1)
        parsed  == FlaskParseRouteDecorator(route_decorator)
        methods == IF parsed.methods = <<>> THEN <<"GET">> ELSE parsed.methods
    IN  IF route_decorator = NoDecorator THEN <<>>
        ELSE [k \in 1..Len(methods) |->
                [method      |-> Upper(methods[k]),
                 path        |-> parsed.path,
                 pathType    |-> parsed.pathType,
                 file        |-> file,
                 line        |-> line,
                 function    |-> node.name,
                 summary     |-> FlaskExtractSummary(node.name),
                 description |-> node.doc]]

\* FlaskVisitor.visit over the function definitions of a parsed file.
RECURSIVE FlaskVisit(_, _, _)
FlaskVisit(file, defs, i) ==
    IF i > Len(defs) THEN <<>>
    ELSE FlaskVisitFunctionDef(file, i, defs[i]) \o FlaskVisit(file, defs, i + 1)

\* The parameters generate_openapi derives from the path's placeholders.
FlaskParams(path) ==
    LET path_params == FlaskFindAll(path, 1)
    IN  [k \in 1..Len(path_params) |->
            [name     |-> path_params[k][2],
             in       |-> "path",
             required |-> TRUE,
             schema   |-> [type |-> IF path_params[k][1] # <<>>
                                    THEN FlaskTypeToOpenapi(path_params[k][1])
                                    ELSE "string"]]]

\* The operation generate_openapi builds for one endpoint (parameters = <<>>
\* stands for an operation without the key).
FlaskOperation(endpoint) ==
    [summary     |-> endpoint.summary,
     description |-> endpoint.description,
     operationId |-> <<Lower(endpoint.method)>> \o ReplaceSlash(endpoint.path),
     responses   |-> [r200 |-> [description |-> "Successful response"]],
     parameters  |-> FlaskParams(endpoint.path)]

\* path_key of generate_openapi: the key the operation is stored under.
FlaskPathKey(endpoint) == endpoint.path

\* paths[path_key][method] = operation
PutEntry(paths, path_key, method, operation) ==
    LET inner == IF path_key \in DOMAIN paths THEN paths[path_key] ELSE <<>>
    IN  (path_key :> ((method :> operation) @@ inner)) @@ paths

\* The loop of flask-analyzer's generate_openapi over endpoints[1..n].
RECURSIVE FlaskGeneratePaths(_, _)
FlaskGeneratePaths(eps, n) ==
    IF n = 0 THEN <<>>
    ELSE PutEntry(FlaskGeneratePaths(eps, n - 1), FlaskPathKey(eps[n]),
                  Lower(eps[n].method), FlaskOperation(eps[n]))

\* generate_openapi(None, endpoints, schemas) of flask-analyzer.py
FlaskGenerateOpenapi(eps, schs) ==
    [openapi    |-> "3.0.0",
     info       |-> [title |-> "Flask API", version |-> "1.0.0",
                     description |-> "Generated from Flask code"],
     paths      |-> FlaskGeneratePaths(eps, Len(eps)),
     components |-> [schemas |-> schs]]

\* str.replace / str.lower of a path that is no string raise AttributeError.
GenerateRaises(eps) == \E i \in 1..Len(eps) : eps[i].pathType # "str"

(***************************************************************************)
(* fastapi-analyzer.py                                                     *)
(***************************************************************************)
\* None where a text is expected (texts are sequences of pieces).
NoneText == <<None>>

\* A Python str and an ast.arg node, as dictionary keys: a str never equals
\* a node, whatever the node's name.
PyStr(name) == [type |-> "str", value |-> name]
ArgNode(a) == [type |-> "ast.arg", value |-> a.arg]

FastapiVerbs == {"get", "post", "put", "delete", "patch", "options", "head", "trace"}

\* _get_route_decorator: the first decorator call whose name is an HTTP verb.
RECURSIVE FastapiGetRouteDecorator(_, _)
FastapiGetRouteDecorator(decorators, i) ==
    IF i > Len(decorators) THEN NoDecorator
    ELSE IF decorators[i].attr \in FastapiVerbs THEN decorators[i]
    ELSE FastapiGetRouteDecorator(decorators, i + 1)

\* _parse_route_decorator: method, path and metadata; docscan is what
\* _extract_docstring(decorator.lineno) finds in the file's text.
FastapiParseRouteDecorator(decorator, docscan) ==
    [method      |-> Upper(decorator.attr),
     path        |-> IF decorator.arg0.kind \in {"str", "int"}
                     THEN decorator.arg0.val ELSE <<"/">>,
     pathType    |-> IF decorator.arg0.kind = "int" THEN "int" ELSE "str",
     summary     |-> decorator.summary,
     description |-> IF decorator.description \in {NoneText, <<>>}
                        /\ decorator.summary \in {NoneText, <<>>}
                     THEN docscan ELSE decorator.description,
     tags        |-> decorator.tags]

\* The ast nodes an annotation can be: no annotation at all, ast.Name,
\* ast.Subscript (value[slice]), ast.Attribute (typing.List) and ast.Tuple
\* (the slice of Dict[str, int]).
NoAnnotation == [node |-> "None"]
AstName(id) == [node |-> "Name", id |-> id]
AstSubscript(value, slice) == [node |-> "Subscript", value |-> value, slice |-> slice]
AstAttribute == [node |-> "Attribute"]
AstTuple == [node |-> "Tuple"]

\* type_map.get(annotation.id, 'string') with a default of the caller's choice
FastapiTypeMap(id, default) ==
    CASE id = "str" -> "string"
      [] id = "int" -> "integer"
      [] id = "float" -> "number"
      [] id = "bool" -> "boolean"
      [] id = "list" -> "array"
      [] id = "dict" -> "object"
      [] OTHER -> default

\* _parse_type_annotation with 'object' where the script has 'string'.
RECURSIVE FastapiParseTypeAnnotationObjectDefault(_)
FastapiParseTypeAnnotationObjectDefault(annotation) ==
    IF annotation.node = "Name"
    THEN [type |-> FastapiTypeMap(annotation.id, "object")]
    ELSE IF /\ annotation.node = "Subscript"
            /\ annotation.value.node = "Name"
            /\ annotation.value.id = "List"
    THEN [type  |-> "array",
          items |-> FastapiParseTypeAnnotationObjectDefault(annotation.slice)]
    ELSE IF /\ annotation.node = "Subscript"
            /\ annotation.value.node = "Name"
            /\ annotation.value.id = "Optional"
    THEN [nullable |-> TRUE] @@ FastapiParseTypeAnnotationObjectDefault(annotation.slice)
    ELSE [type |-> "object"]

\* _parse_type_annotation: a name goes through the table, List[T] is an
\* array of T, Optional[T] is T made nullable, everything else is a string.
RECURSIVE FastapiParseTypeAnnotation(_)
FastapiParseTypeAnnotation(annotation) ==
    IF annotation.node = "Name"
    THEN [type |-> FastapiTypeMap(annotation.id, "string")]
    ELSE IF /\ annotation.node = "Subscript"
            /\ annotation.value.node = "Name"
            /\ annotation.value.id = "List"
    THEN [type  |-> "array",
          items |-> FastapiParseTypeAnnotation(annotation.slice)]
    ELSE IF /\ annotation.node = "Subscript"
            /\ annotation.value.node = "Name"
            /\ annotation.value.id = "Optional"
    THEN [nullable |-> TRUE] @@ FastapiParseTypeAnnotation(annotation.slice)
    ELSE [type |-> "string"]

\* The keys of dict(zip(node.args.args[-len(node.args.defaults):],
\* node.args.defaults)): the ast.arg nodes of the arguments that have a
\* default (with no default at all, zip with the empty list gives no key).
FastapiDefaultKeysByName(args) ==
    {PyStr(args[i].arg) : i \in {j \in 1..Len(args) : args[j].hasDefault}}

FastapiDefaultKeys(args) ==
    {ArgNode(args[i]) : i \in {j \in 1..Len(args) : args[j].hasDefault}}

\* Does evaluating f'{{{arg.arg}}}' in path.value raise for some decorator?
\* (a constant that is no string is not iterable: TypeError)
FastapiPathTestRaises(node) ==
    \E d \in 1..Len(node.decorators) : node.decorators[d].arg0.kind = "int"

\* One parameter of _extract_parameters.
FastapiParameter(node, arg) ==
    LET inPath == \E d \in 1..Len(node.decorators) :
                    /\ node.decorators[d].arg0.kind = "str"
                    /\ Contains(node.decorators[d].arg0.val,
                                <<"{">> \o arg.arg \o <<"}">>)
        schema == IF arg.annotation # NoAnnotation
                  THEN FastapiParseTypeAnnotation(arg.annotation)
                  ELSE [type |-> "string"]
        hasKey == PyStr(arg.arg) \in FastapiDefaultKeys(node.args)
    IN  [name     |-> arg.arg,
         in       |-> IF inPath THEN "path" ELSE "query",
         required |-> ~hasKey,
         schema   |-> IF hasKey /\ arg.default # None
                      THEN [default |-> arg.default] @@ schema
                      ELSE schema]

IsSelfOrCls(name) == name \in {<<"s", "e", "l", "f">>, <<"c", "l", "s">>}

\* _extract_parameters: one parameter per argument other than self/cls.
RECURSIVE FastapiExtractParameters(_, _)
FastapiExtractParameters(node, i) ==
    IF i > Len(node.args) THEN <<>>
    ELSE (IF IsSelfOrCls(node.args[i].arg) THEN <<>>
          ELSE <<FastapiParameter(node, node.args[i])>>)
         \o FastapiExtractParameters(node, i + 1)

\* _extract_responses
FastapiExtractResponses(node) ==
    IF node.returns # NoAnnotation
    THEN [r200 |-> [description |-> "Successful Response",
                    content |-> FastapiParseTypeAnnotation(node.returns)]]
    ELSE [r200 |-> [description |-> "Successful Response"]]

\* _extract_request_body: a $ref to the annotation of the first argument
\* annotated with a plain name (self/cls aside); None otherwise.
RECURSIVE FastapiExtractRequestBody(_, _)
FastapiExtractRequestBody(args, i) ==
    IF i > Len(args) THEN None
    ELSE IF args[i].annotation.node = "Name" /\ ~IsSelfOrCls(args[i].arg)
         THEN args[i].annotation.id
         ELSE FastapiExtractRequestBody(args, i + 1)

\* Does visit_FunctionDef raise on this function?  Inside a class,
\* _extract_router_prefix(node) reads node.keywords of a FunctionDef
\* (AttributeError); _extract_parameters raises on a non-string path when
\* there is an argument to test.  An async def is an ast.AsyncFunctionDef,
\* for which visit_FunctionDef is not called.
FastapiVisitRaises(node) ==
    /\ ~node.async
    /\ FastapiGetRouteDecorator(node.decorators, 1) # NoDecorator
    /\ \/ node.inClass
       \/ /\ FastapiPathTestRaises(node)
          /\ \E i \in 1..Len(node.args) : ~IsSelfOrCls(node.args[i].arg)

\* FastAPIVisitor.visit_FunctionDef: the endpoint of a route-decorated function.
FastapiVisitFunctionDef(file, line, node) ==
    LET route_decorator == FastapiGetRouteDecorator(node.decorators, 1)
        parsed == FastapiParseRouteDecorator(route_decorator, node.docscan)
    IN  IF route_decorator = NoDecorator THEN <<>>
        ELSE <<[method       |-> parsed.method,
                path         |-> parsed.path,
                pathType     |-> parsed.pathType,
                file         |-> file,
                line         |-> line,
                function     |-> node.name,
                summary      |-> parsed.summary,
                description  |-> parsed.description,
                tags         |-> parsed.tags,
                parameters   |-> FastapiExtractParameters(node, 1),
                responses    |-> FastapiExtractResponses(node),
                request_body |-> FastapiExtractRequestBody(node.args, 1),
                security     |-> <<>>]>>

\* FastAPIVisitor.visit over the function definitions of a parsed file:
\* the visitor defines visit_FunctionDef and visit_ClassDef only, so an
\* ast.AsyncFunctionDef goes to generic_visit and yields no endpoint.
RECURSIVE FastapiVisit(_, _, _)
FastapiVisit(file, defs, i) ==
    IF i > Len(defs) THEN <<>>
    ELSE (IF defs[i].async THEN <<>> ELSE FastapiVisitFunctionDef(file, i, defs[i]))
         \o FastapiVisit(file, defs, i + 1)

\* The operation generate_openapi builds for one endpoint (parameters and
\* tags = <<>>, requestBody = None stand for an operation without the key).
FastapiOperation(endpoint) ==
    [summary     |-> IF endpoint.summary \in {NoneText, <<>>}
                     THEN <<endpoint.method, " ">> \o endpoint.path
                     ELSE endpoint.summary,
     description |-> endpoint.description,
     operationId |-> <<Lower(endpoint.method)>> \o ReplaceSlash(endpoint.path),
     responses   |-> endpoint.responses,
     parameters  |-> endpoint.parameters,
     requestBody |-> endpoint.request_body,
     tags        |-> endpoint.tags]

\* The loop of fastapi-analyzer's generate_openapi over endpoints[1..n].
RECURSIVE FastapiGeneratePaths(_, _)
FastapiGeneratePaths(eps, n) ==
    IF n = 0 THEN <<>>
    ELSE PutEntry(FastapiGeneratePaths(eps, n - 1), eps[n].path,
                  Lower(eps[n].method), FastapiOperation(eps[n]))

\* generate_openapi without the fallback of `info or {...}`: main passes no
\* info, and the document's info stays without content.
FastapiGenerateOpenapiNoInfo(eps, schs) ==
    [openapi    |-> "3.0.0",
     info       |-> <<>>,
     paths      |-> FastapiGeneratePaths(eps, Len(eps)),
     components |-> [schemas |-> schs]]

\* generate_openapi(None, endpoints, schemas) of fastapi-analyzer.py
FastapiGenerateOpenapi(eps, schs) ==
    [openapi    |-> "3.0.0",
     info       |-> [title |-> "API", version |-> "1.0.0",
                     description |-> "Generated from FastAPI code"],
     paths      |-> FastapiGeneratePaths(eps, Len(eps)),
     components |-> [schemas |-> schs]]

(***************************************************************************)
(* spring-analyzer.py                                                      *)
(*                                                                         *)
(* A Java file is a sequence of lines; a line is described by what the     *)
(* script's regular expressions find on it:                                *)
(*   mapping   the verb of @(Get|Post|Put|Delete|Patch|Request)Mapping,    *)
(*             "" when the line has none                                   *)
(*   attrLit   the literal of the first (value|path)\s*=\s*"([^"]+)",      *)
(*             <<>> when there is none (the literal cannot be empty)       *)
(*   shortLit  the literal of @[A-Za-z]+Mapping\(\s*"([^"]+)", or <<>>     *)
(*   classLit  the literal of @RequestMapping\(\s*value\s*=\s*"([^"]+)",   *)
(*             or <<>>                                                     *)
(*   vis       the line contains public, private or protected             *)
(*   ret       the return type (?:public|private|protected)\s+(\S+)\s+\w+  *)
(*             \s*\( captures on the line, None when it does not match     *)
(*   paren     the line has a parenthesised group without ')' inside       *)
(*   params    the tokens of that group: words, @words and commas          *)
(*   lead      how the stripped line starts: "/**", "*", "@", "" (blank)   *)
(*             or "code"                                                   *)
(*   docText   the text of a one-line /** ... */ comment                   *)
(*   controller  the line contains @RestController or @Controller          *)
(*   marker    the line contains @Entity, @Data, @RequestBody or           *)
(*             @ResponseBody                                               *)
(*   className the name public\s+class\s+(\w+) captures, None when absent  *)
(*   field     the (type, name) pairs private\s+(\S+)\s+(\w+) finds        *)
(* and, for the Java text itself,                                          *)
(*   declares  the (type, name) of the field the line declares, <<>> when  *)
(*             it declares no field                                        *)
(***************************************************************************)
\* _extract_class_annotations: base_path is the literal of the first
\* @RequestMapping(value = "...") anywhere in the content; <<>> when absent.
RECURSIVE SpringExtractClassAnnotations(_, _)
SpringExtractClassAnnotations(lines, i) ==
    IF i > Len(lines) THEN <<>>
    ELSE IF lines[i].classLit # <<>> THEN lines[i].classLit
    ELSE SpringExtractClassAnnotations(lines, i + 1)

\* The path loop of _parse_endpoint_annotation over lines i..last: the first
\* line that has a value=/path= literal or a shorthand literal decides.
RECURSIVE SpringFindPath(_, _, _)
SpringFindPath(lines, i, last) ==
    IF i > last THEN <<"/">>
    ELSE IF lines[i].attrLit # <<>> THEN lines[i].attrLit
    ELSE IF lines[i].shortLit # <<>> THEN lines[i].shortLit
    ELSE SpringFindPath(lines, i + 1, last)

\* The first line in i..last with a visibility modifier; 0 when none.
RECURSIVE SpringFindSignatureLine(_, _, _)
SpringFindSignatureLine(lines, i, last) ==
    IF i > last THEN 0
    ELSE IF lines[i].vis THEN i
    ELSE SpringFindSignatureLine(lines, i + 1, last)

\* re.findall(r'@?(\w+(?:<[^>]+>)?)\s+(\w+)', params_str) on the tokens from
\* position i (no generic types among the inputs): a word or @word directly
\* followed by a word is a (type, name) pair; the scan resumes after it.
RECURSIVE SpringParamPairs(_, _)
SpringParamPairs(tokens, i) ==
    IF i >= Len(tokens) THEN <<>>
    ELSE IF tokens[i].k \in {"word", "at"} /\ tokens[i + 1].k = "word"
         THEN <<[type |-> tokens[i].w, name |-> tokens[i + 1].w]>>
              \o SpringParamPairs(tokens, i + 2)
         ELSE SpringParamPairs(tokens, i + 1)

\* The carrier filter of _parse_method_signature: it tests the parameter's name.
SpringKeepParam(p) ==
    p.name \notin {"Model", "ModelMap", "HttpServletRequest", "HttpServletResponse"}

\* The first of the lines i..last with the given feature; 0 when none.
RECURSIVE SpringFirstParen(_, _, _)
SpringFirstParen(lines, i, last) ==
    IF i > last THEN 0
    ELSE IF lines[i].paren THEN i
    ELSE SpringFirstParen(lines, i + 1, last)

RECURSIVE SpringFirstRet(_, _, _)
SpringFirstRet(lines, i, last) ==
    IF i > last THEN 0
    ELSE IF lines[i].ret # None THEN i
    ELSE SpringFirstRet(lines, i + 1, last)

Min(a, b) == IF a < b THEN a ELSE b

\* _parse_method_signature(lines[i:]): the first three lines joined; the
\* return type of the first method header and the pairs of the first
\* parenthesised group in them.
SpringParseMethodSignature(lines, i) ==
    LET last == Min(i + 2, Len(lines))
        r    == SpringFirstRet(lines, i, last)
        g    == SpringFirstParen(lines, i, last)
    IN  [return_type |-> IF r = 0 THEN "void" ELSE lines[r].ret,
         parameters  |-> IF g = 0 THEN <<>>
                         ELSE SelectSeq(SpringParamPairs(lines[g].params, 1),
                                        SpringKeepParam)]

\* The generic type spellings the inputs use, and java_type.split('<')[0]
\* on them; '<' in java_type holds for exactly these.
JavaGenericTypes ==
    {"List<String>", "Set<Long>", "Map<String,Item>", "Page<Item>",
     "Optional<String>", "Integer<T>"}

JavaSplitAngle(java_type) ==
    CASE java_type = "List<String>" -> "List"
      [] java_type = "Set<Long>" -> "Set"
      [] java_type = "Map<String,Item>" -> "Map"
      [] java_type = "Page<Item>" -> "Page"
      [] java_type = "Optional<String>" -> "Optional"
      [] java_type = "Integer<T>" -> "Integer"
      [] OTHER -> java_type

\* type_map.get(name, 'object') of _java_type_to_openapi
SpringTypeMap(name) ==
    CASE name = "String" -> "string"
      [] name \in {"Integer", "int", "Long", "long"} -> "integer"
      [] name \in {"Double", "double", "Float", "float"} -> "number"
      [] name \in {"Boolean", "boolean"} -> "boolean"
      [] name \in {"LocalDate", "LocalDateTime", "UUID"} -> "string"
      [] name \in {"List", "Set"} -> "array"
      [] name = "void" -> "void"
      [] OTHER -> "object"

\* _java_type_to_openapi: a generic type is looked up by its base type.
SpringJavaTypeToOpenapi(java_type) ==
    IF java_type \in JavaGenericTypes
    THEN SpringTypeMap(JavaSplitAngle(java_type))
    ELSE SpringTypeMap(java_type)

\* _extract_parameters_from_signature
SpringExtractParametersFromSignature(signature) ==
    [k \in 1..Len(signature.parameters) |->
        [name   |-> signature.parameters[k].name,
         in     |-> "query",
         schema |-> [type |-> SpringJavaTypeToOpenapi(signature.parameters[k].type)]]]

\* _extract_responses_from_signature
SpringExtractResponsesFromSignature(signature) ==
    IF signature.return_type # "void"
    THEN [r200 |-> [description |-> "Successful response",
                    content |-> [type |-> SpringJavaTypeToOpenapi(signature.return_type)]]]
    ELSE [r200 |-> [description |-> "Successful response"]]

\* _extract_javadoc: scan backward from the line before the annotation (at
\* most 19 lines, never the file's first line) to a line starting a
\* documentation comment; a line of code ends the scan.
JavadocWindow == 20

RECURSIVE SpringExtractJavadoc(_, _, _)
SpringExtractJavadoc(lines, i, stop) ==
    IF i <= stop THEN [summary |-> NoneText, description |-> NoneText]
    ELSE IF lines[i].lead = "/**"
         THEN [summary |-> <<lines[i].docText, " */">>,
               description |-> <<lines[i].docText>>]
    ELSE IF lines[i].lead = "code"
         THEN [summary |-> NoneText, description |-> NoneText]
    ELSE SpringExtractJavadoc(lines, i - 1, stop)

Max(a, b) == IF a > b THEN a ELSE b

\* The number of lines the path loop and the signature loop look at.
PathWindow == 5
SignatureWindow == 10

\* Does _parse_endpoint_annotation raise?  With no visibility modifier in
\* the window method_signature stays None and signature.get raises.
SpringEndpointRaises(lines, start) ==
    SpringFindSignatureLine(lines, start, Min(start + SignatureWindow - 1, Len(lines))) = 0

\* The method path joined to the class's base path.
SpringFullPath(base_path, path) ==
    LET RECURSIVE RStrip(_)
        RStrip(b) == IF b # <<>> /\ b[Len(b)] = "/"
                     THEN RStrip(SubSeq(b, 1, Len(b) - 1)) ELSE b
    IN  IF base_path # <<>> THEN RStrip(base_path) \o path ELSE path

\* _parse_endpoint_annotation for the annotation on line start (1-based here,
\* which is the script's start_line + 1).
SpringParseEndpointAnnotation(lines, start, file, base_path) ==
    LET verb      == Upper(lines[start].mapping)
        method    == IF verb = "REQUEST" THEN "GET" ELSE verb
        path      == SpringFindPath(lines, start, Min(start + PathWindow - 1, Len(lines)))
        sigLine   == SpringFindSignatureLine(lines, start,
                        Min(start + SignatureWindow - 1, Len(lines)))
        signature == SpringParseMethodSignature(lines, sigLine)
        full_path == SpringFullPath(base_path, path)
        javadoc   == SpringExtractJavadoc(lines, start - 1,
                                          Max(1, start - JavadocWindow))
    IN  [method      |-> method,
         path        |-> full_path,
         pathType    |-> "str",
         file        |-> file,
         line        |-> start,
         summary     |-> IF javadoc.summary # NoneText THEN javadoc.summary
                         ELSE <<method, " ">> \o full_path,
         description |-> javadoc.description,
         parameters  |-> SpringExtractParametersFromSignature(signature),
         responses   |-> SpringExtractResponsesFromSignature(signature)]

\* The loop of _parse_java_file from line i on: every line with a mapping
\* annotation appends its endpoint to self.endpoints at once; the loop ends
\* where _parse_endpoint_annotation raises.
RECURSIVE SpringParseJavaFile(_, _, _, _)
SpringParseJavaFile(lines, i, file, base_path) ==
    IF i > Len(lines) THEN [raised |-> FALSE, endpoints |-> <<>>]
    ELSE IF lines[i].mapping = "" THEN SpringParseJavaFile(lines, i + 1, file, base_path)
    ELSE IF SpringEndpointRaises(lines, i) THEN [raised |-> TRUE, endpoints |-> <<>>]
    ELSE LET rest == SpringParseJavaFile(lines, i + 1, file, base_path)
         IN  [raised    |-> rest.raised,
              endpoints |-> <<SpringParseEndpointAnnotation(lines, i, file, base_path)>>
                            \o rest.endpoints]

\* All (type, name) pairs the field pattern finds in the content, in order.
RECURSIVE SpringFields(_, _)
SpringFields(lines, i) ==
    IF i > Len(lines) THEN <<>>
    ELSE lines[i].field \o SpringFields(lines, i + 1)

\* The name of the first public class of the content; None when there is none.
RECURSIVE SpringClassName(_, _)
SpringClassName(lines, i) ==
    IF i > Len(lines) THEN None
    ELSE IF lines[i].className # None THEN lines[i].className
    ELSE SpringClassName(lines, i + 1)

\* properties[field_name] = {...} for fields[1..n]: a dictionary in insertion
\* order; assigning an existing key keeps its place and replaces its value.
RECURSIVE SpringProperties(_, _)
SpringProperties(fields, n) ==
    IF n = 0 THEN <<>>
    ELSE LET prev == SpringProperties(fields, n - 1)
             prop == [name |-> fields[n][2],
                      type |-> SpringJavaTypeToOpenapi(fields[n][1])]
         IN  IF \E k \in 1..Len(prev) : prev[k].name = prop.name
             THEN [k \in 1..Len(prev) |->
                    IF prev[k].name = prop.name THEN prop ELSE prev[k]]
             ELSE Append(prev, prop)

\* The schemas after the last statement of _parse_java_file, which calls
\* _extract_schemas_from_class when the content names a controller.
SpringExtractSchemas(schs, lines) ==
    LET fields == SpringFields(lines, 1)
        name   == SpringClassName(lines, 1)
    IN  IF /\ \E i \in 1..Len(lines) : lines[i].controller
           /\ \E i \in 1..Len(lines) : lines[i].marker
           /\ name # None
           /\ fields # <<>>
        THEN (name :> [type |-> "object",
                       properties |-> SpringProperties(fields, Len(fields))]) @@ schs
        ELSE schs

\* The operation generate_openapi builds for one endpoint.
SpringOperation(endpoint) ==
    [summary     |-> endpoint.summary,
     description |-> endpoint.description,
     operationId |-> <<Lower(endpoint.method)>> \o ReplaceSlash(endpoint.path),
     responses   |-> endpoint.responses,
     parameters  |-> endpoint.parameters]

\* The loop of spring-analyzer's generate_openapi over endpoints[1..n].
RECURSIVE SpringGeneratePaths(_, _)
SpringGeneratePaths(eps, n) ==
    IF n = 0 THEN <<>>
    ELSE PutEntry(SpringGeneratePaths(eps, n - 1), eps[n].path,
                  Lower(eps[n].method), SpringOperation(eps[n]))

\* generate_openapi(None, endpoints, schemas) of spring-analyzer.py
SpringGenerateOpenapi(eps, schs) ==
    [openapi    |-> "3.0.0",
     info       |-> [title |-> "Spring Boot API", version |-> "1.0.0",
                     description |-> "Generated from Spring Boot code"],
     paths      |-> SpringGeneratePaths(eps, Len(eps)),
     components |-> [schemas |-> schs]]

(***************************************************************************)
(* Flask inputs                                                            *)
(***************************************************************************)
StrArg(p) == [kind |-> "str", val |-> p]
ExprArg == [kind |-> "expr", val |-> <<>>]
IntArg == [kind |-> "int", val |-> <<"5">>]
NoMethods == [kind |-> "absent", elts |-> <<>>]
MethodList(l) == [kind |-> "list", elts |-> l]

FlaskPaths ==
    {<<"/", "p", "i", "n", "g">>,
     <<"/", "i", "t", "e", "m", "s", "/", "<", "i", "n", "t", ":", "i", "t", "e", "m", "_", "i", "d", ">">>,
     <<"/", "u", "/", "<", "n", "a", "m", "e", ">">>,
     <<"/", "<", "a", ">", "/", "<", "b", ">">>}

FlaskRoute(arg0, methods) == [attr |-> "route", arg0 |-> arg0, methods |-> methods]

FlaskDef(name, decorators, docstring) ==
    [name |-> name, decorators |-> decorators, doc |-> docstring]

FlaskArg0s == {StrArg(p) : p \in FlaskPaths} \cup {ExprArg, IntArg}

FlaskDefs ==
    {FlaskDef("ping", <<FlaskRoute(a, m)>>, None) :
        a \in FlaskArg0s,
        m \in {NoMethods, MethodList(<<"POST">>), MethodList(<<"get", "post">>)}}
    \cup {FlaskDef(nd[1], <<FlaskRoute(StrArg(p), NoMethods)>>, nd[2]) :
        nd \in {<<"ping", "one">>, <<"get_item", None>>}, p \in FlaskPaths}
    \cup {FlaskDef("ping", <<FlaskRoute(StrArg(<<"/", "p", "i", "n", "g">>),
                                        MethodList(<<"CONNECT">>))>>, None)}

\* A file is either unparseable (ast.parse raises SyntaxError) or a sequence
\* of function definitions.
FlaskFiles ==
    {[parseable |-> FALSE, defs |-> <<>>]}
    \cup {[parseable |-> TRUE, defs |-> <<d>>] : d \in FlaskDefs}
    \cup {[parseable |-> TRUE,
           defs |-> <<FlaskDef("ping", <<FlaskRoute(StrArg(p), NoMethods)>>, None),
                      FlaskDef("get_item", <<FlaskRoute(StrArg(q), NoMethods)>>, None)>>] :
            p \in FlaskPaths, q \in FlaskPaths}
    \cup {[parseable |-> TRUE,
           defs |-> <<FlaskDef("ping",
                               <<FlaskRoute(StrArg(<<"/", "a">>), NoMethods),
                                 FlaskRoute(StrArg(<<"/", "b">>), NoMethods)>>, None)>>]}

(***************************************************************************)
(* FastAPI inputs                                                          *)
(***************************************************************************)
FastapiPaths ==
    {<<"/", "a">>, <<"/", "u", "/", "{", "i", "d", "}">>}

FastapiRoute(verb, arg0, summary) ==
    [attr |-> verb, arg0 |-> arg0, summary |-> summary,
     description |-> NoneText, tags |-> <<>>]

Arg(name, annotation, hasDefault, default) ==
    [arg |-> name, annotation |-> annotation, hasDefault |-> hasDefault,
     default |-> default]

\* Argument lists; as Python requires, defaults are on a suffix of the list.
FastapiArgLists ==
    {<<>>,
     <<Arg(<<"i", "d">>, NoAnnotation, FALSE, None)>>,
     <<Arg(<<"i", "d">>, NoAnnotation, TRUE, "5")>>,
     <<Arg(<<"i", "d">>, AstName("int"), FALSE, None),
       Arg(<<"q">>, NoAnnotation, TRUE, "5")>>,
     <<Arg(<<"s", "e", "l", "f">>, NoAnnotation, FALSE, None),
       Arg(<<"q">>, AstName("Item"), FALSE, None)>>}

FastapiDef(name, decorators, args, inClass) ==
    [name |-> name, decorators |-> decorators, args |-> args, inClass |-> inClass,
     async |-> FALSE, docscan |-> NoneText, returns |-> NoAnnotation]

\* async def <name>(<args>)
FastapiAsyncDef(name, decorators, args) ==
    [FastapiDef(name, decorators, args, FALSE) EXCEPT !.async = TRUE]

FastapiArg0s == {StrArg(p) : p \in FastapiPaths} \cup {ExprArg, IntArg}

FastapiDefs ==
    {FastapiDef("f", <<FastapiRoute(v, a, NoneText)>>, args, FALSE) :
        v \in {"get", "post"}, a \in FastapiArg0s, args \in FastapiArgLists}
    \cup {FastapiDef("g", <<FastapiRoute("get", StrArg(p), <<"S">>)>>, <<>>, c) :
        p \in FastapiPaths, c \in BOOLEAN}

\* Handlers with and without the summary keyword, the description keyword
\* and a docstring the scan of _extract_docstring finds.
FastapiDocDefs ==
    {[FastapiDef("h", <<[FastapiRoute("get", StrArg(<<"/", "a">>), sm)
                            EXCEPT !.description = ds]>>, <<>>, FALSE)
        EXCEPT !.docscan = dc] :
        sm \in {NoneText, <<"S">>}, ds \in {NoneText, <<"E">>}, dc \in {NoneText, <<"D">>}}

\* A file is either unparseable (ast.parse raises SyntaxError) or a sequence
\* of function definitions; prefix is the prefix keyword of the file's
\* router = APIRouter(prefix="...") assignment, <<>> when it has none.
FastapiFile(prefix, defs) == [parseable |-> TRUE, prefix |-> prefix, defs |-> defs]

FastapiFiles ==
    {[parseable |-> FALSE, prefix |-> <<>>, defs |-> <<>>]}
    \cup {FastapiFile(<<>>, <<d>>) : d \in FastapiDefs \cup FastapiDocDefs}
    \cup {FastapiFile(<<>>,
                       <<FastapiDef("f", <<FastapiRoute("get", StrArg(p), NoneText)>>, <<>>, FALSE),
                         FastapiDef("g", <<FastapiRoute("get", StrArg(q), NoneText)>>, <<>>, c)>>) :
            p \in FastapiPaths, q \in FastapiPaths, c \in BOOLEAN}
    \cup {FastapiFile(<<>>,
                       <<FastapiDef("f",
                                    <<FastapiRoute("get", StrArg(<<"/", "a">>), NoneText),
                                      FastapiRoute("post", StrArg(<<"/", "a">>), NoneText)>>,
                                    <<>>, FALSE)>>)}
    \cup {FastapiFile(<<"/", "v">>,
                       <<FastapiDef("f", <<FastapiRoute("get", StrArg(p), NoneText)>>, <<>>, FALSE)>>) :
            p \in FastapiPaths}
    \cup {FastapiFile(<<>>,
                       <<FastapiAsyncDef("f", <<FastapiRoute("get", StrArg(<<"/", "a">>), NoneText)>>, <<>>)>>
                       \o rest) :
            rest \in {<<>>,
                      <<FastapiDef("g", <<FastapiRoute("post", StrArg(<<"/", "a">>), NoneText)>>,
                                   <<>>, FALSE)>>}}

(***************************************************************************)
(* Spring inputs                                                           *)
(***************************************************************************)
BlankLine ==
    [mapping |-> "", attrLit |-> <<>>, shortLit |-> <<>>, classLit |-> <<>>,
     vis |-> FALSE, ret |-> None, paren |-> FALSE, params |-> <<>>,
     lead |-> "", docText |-> "", controller |-> FALSE, marker |-> FALSE,
     className |-> None, field |-> <<>>, declares |-> <<>>]

\* @<verb>Mapping("lit") | @<verb>Mapping(value = "lit") |
\* @<verb>Mapping(path = "lit") | @<verb>Mapping
MappingLine(verb, form, lit) ==
    [BlankLine EXCEPT
        !.mapping  = verb,
        !.lead     = "@",
        !.paren    = form # "bare",
        !.shortLit = IF form = "shorthand" THEN lit ELSE <<>>,
        !.attrLit  = IF form \in {"value", "path"} THEN lit ELSE <<>>,
        !.classLit = IF form = "value" /\ verb = "Request" THEN lit ELSE <<>>]

\* @RestController
ControllerLine == [BlankLine EXCEPT !.lead = "@", !.controller = TRUE]

\* @Data
DataLine == [BlankLine EXCEPT !.lead = "@", !.marker = TRUE]

\* public class <name> {
ClassLine(name) ==
    [BlankLine EXCEPT !.lead = "code", !.vis = TRUE, !.className = name]

W(w) == [k |-> "word", w |-> w]
At(w) == [k |-> "at", w |-> w]
Comma == [k |-> "comma", w |-> ","]

\* public <ret> handler(<params>) {
SigLine(ret, params) ==
    [BlankLine EXCEPT
        !.lead = "code", !.vis = TRUE, !.ret = ret, !.paren = TRUE,
        !.params = params,
        !.marker = \E i \in 1..Len(params) :
                      params[i] \in {At("RequestBody"), At("ResponseBody")}]

\* private <type> <name>;
FieldLine(type, name) ==
    [BlankLine EXCEPT !.lead = "code", !.vis = TRUE, !.field = <<<<type, name>>>>,
                      !.declares = <<<<type, name>>>>]

\* public <type> <name>;
PublicFieldLine(type, name) ==
    [BlankLine EXCEPT !.lead = "code", !.vis = TRUE, !.declares = <<<<type, name>>>>]

\* private <ret> <name>() { }
PrivateMethodLine(ret, name) ==
    [BlankLine EXCEPT !.lead = "code", !.vis = TRUE, !.ret = ret, !.paren = TRUE,
                      !.field = <<<<ret, name>>>>]

\* public <ret> handler(@RequestParam(value = "lit") String q) {
\* the first parenthesised group, @RequestParam(value = "lit", holds no
\* type-name pair.
AnnotatedSigLine(ret, lit) == [SigLine(ret, <<>>) EXCEPT !.attrLit = lit]

\* }
CloseLine == [BlankLine EXCEPT !.lead = "code"]

\* /** <text> */
JavadocLine(text) == [BlankLine EXCEPT !.lead = "/**", !.docText = text]

SpringLits == {<<"/", "w">>, <<"w">>}
SpringBases == {<<>>, <<"/", "v">>, <<"/", "v", "/">>}

\* String a, int b
ParamsPlain == <<W("String"), W("a"), Comma, W("int"), W("b")>>
\* @RequestParam String a, @RequestParam String b
ParamsAnnotated ==
    <<At("RequestParam"), W("String"), W("a"), Comma,
      At("RequestParam"), W("String"), W("b")>>
\* Model model
ParamsCarrier == <<W("Model"), W("model")>>

SpringForms ==
    {<<"Get", "shorthand">>, <<"Post", "value">>, <<"Request", "path">>,
     <<"Get", "bare">>}

\* A controller class: optional class-level @RequestMapping(value = base),
\* then the lines of its methods.
SpringController(base, methodLines) ==
    <<ControllerLine>>
    \o (IF base = <<>> THEN <<>> ELSE <<MappingLine("Request", "value", base)>>)
    \o <<ClassLine("A")>> \o methodLines \o <<CloseLine>>

SpringMethod(vf, lit, params) ==
    <<MappingLine(vf[1], vf[2], lit), SigLine("String", params)>>

SpringFiles ==
    {SpringController(b, SpringMethod(vf, l, ParamsPlain)) :
        b \in SpringBases, vf \in SpringForms, l \in SpringLits}
    \cup {SpringController(<<>>, SpringMethod(<<"Get", "shorthand">>, <<"/", "w">>, ps)) :
        ps \in {<<>>, ParamsAnnotated, ParamsCarrier}}
    \cup {SpringController(b, SpringMethod(<<"Get", "shorthand">>, <<"/", "w">>, <<>>)
                              \o SpringMethod(<<"Post", "shorthand">>, l, <<>>)) :
        b \in {<<>>, <<"/", "v">>}, l \in SpringLits}
    \cup {SpringController(<<>>, SpringMethod(<<"Get", "shorthand">>, <<"/", "w">>, <<>>))
          \o <<MappingLine("Post", "shorthand", <<"/", "w">>)>>,
          SpringController(<<>>, <<JavadocLine("Lists"),
                                   MappingLine("Get", "shorthand", <<"/", "w">>),
                                   SigLine("void", <<>>)>>),
          <<DataLine, ClassLine("Item"), FieldLine("String", "name"),
            FieldLine("int", "size"), CloseLine>>,
          SpringController(<<>>, <<FieldLine("Model", "model"),
                                   MappingLine("Post", "shorthand", <<"/", "w">>),
                                   SigLine("Item", <<At("RequestBody"), W("Item"), W("item")>>)>>),
          SpringController(<<>>, <<FieldLine("String", "name"),
                                   MappingLine("Post", "shorthand", <<"/", "w">>),
                                   SigLine("Item", <<At("RequestBody"), W("Item"), W("item")>>)>>),
          <<ControllerLine, DataLine, ClassLine("A"), FieldLine("String", "name"),
            PublicFieldLine("int", "size"), FieldLine("long", "id"), CloseLine>>,
          <<ControllerLine, DataLine, ClassLine("A"), FieldLine("String", "name"),
            PrivateMethodLine("void", "helper"), CloseLine>>,
          SpringController(<<>>, SpringMethod(<<"Request", "value">>, <<"/", "w">>, <<>>)),
          SpringController(<<>>, <<MappingLine("Get", "bare", <<>>),
                                   AnnotatedSigLine("String", <<"q">>)>>),
          SpringController(<<>>, SpringMethod(<<"Get", "bare">>, <<>>, <<>>)
                                 \o SpringMethod(<<"Post", "shorthand">>, <<"/", "w">>, <<>>))}

(***************************************************************************)
(* The run                                                                 *)
(***************************************************************************)
NoDoc == [openapi |-> "none"]

Warning(kind, file) == [kind |-> kind, file |-> file]

Init ==
    /\ frontend \in {"flask", "fastapi", "spring"}
    /\ pc = "analyze"
    /\ files = <<>>
    /\ endpoints = <<>>
    /\ schemas = <<>>
    /\ stderr = <<>>
    /\ doc = NoDoc
    /\ normIn = <<>>
    /\ normOut = <<>>
    /\ typeIn = NoAnnotation
    /\ typeOut = <<>>

\* _analyze_file without its except clauses: a SyntaxError ends the run.
FlaskAnalyzeFileNoExcept ==
    /\ frontend = "flask"
    /\ pc = "analyze"
    /\ Len(files) < MaxFiles
    /\ \E f \in FlaskFiles :
        /\ files' = Append(files, f)
        /\ IF f.parseable
           THEN /\ endpoints' = endpoints \o FlaskVisit(Len(files) + 1, f.defs, 1)
                /\ pc' = pc
           ELSE /\ endpoints' = endpoints
                /\ pc' = "raised"
    /\ UNCHANGED <<frontend, schemas, stderr, doc, normIn, normOut, typeIn, typeOut>>

\* FlaskAnalyzer._analyze_file on the next enumerated file: the visitor's
\* endpoints are appended once the whole file was visited; a SyntaxError is
\* printed as a warning and adds nothing.
FlaskAnalyzeFile ==
    /\ frontend = "flask"
    /\ pc = "analyze"
    /\ Len(files) < MaxFiles
    /\ \E f \in FlaskFiles :
        /\ files' = Append(files, f)
        /\ IF f.parseable
           THEN /\ endpoints' = endpoints \o FlaskVisit(Len(files) + 1, f.defs, 1)
                /\ stderr' = stderr
           ELSE /\ endpoints' = endpoints
                /\ stderr' = Append(stderr, Warning("parse", Len(files) + 1))
    /\ UNCHANGED <<frontend, pc, schemas, doc, normIn, normOut,
                 typeIn, typeOut>>

\* analyze() returns after the last file.
AnalyzeReturn ==
    /\ pc = "analyze"
    /\ pc' = "generate"
    /\ UNCHANGED <<frontend, files, endpoints, schemas, stderr, doc, normIn, normOut,
                 typeIn, typeOut>>

\* main(): generate_openapi(None, result['endpoints'], result['schemas'])
FlaskGenerate ==
    /\ frontend = "flask"
    /\ pc = "generate"
    /\ IF GenerateRaises(endpoints)
       THEN pc' = "raised" /\ doc' = doc
       ELSE pc' = "done" /\ doc' = FlaskGenerateOpenapi(endpoints, schemas)
    /\ UNCHANGED <<frontend, files, endpoints, schemas, stderr, normIn, normOut,
                 typeIn, typeOut>>

\* FastAPIAnalyzer._analyze_file on the next enumerated file: the visitor's
\* endpoints are appended once the whole file was visited; a SyntaxError or
\* any exception raised while visiting is printed as a warning and the file
\* adds nothing.
FastapiAnalyzeFile ==
    /\ frontend = "fastapi"
    /\ pc = "analyze"
    /\ Len(files) < MaxFiles
    /\ \E f \in FastapiFiles :
        /\ files' = Append(files, f)
        /\ IF ~f.parseable
           THEN /\ endpoints' = endpoints
                /\ stderr' = Append(stderr, Warning("parse", Len(files) + 1))
           ELSE IF \E i \in 1..Len(f.defs) : FastapiVisitRaises(f.defs[i])
           THEN /\ endpoints' = endpoints
                /\ stderr' = Append(stderr, Warning("error", Len(files) + 1))
           ELSE /\ endpoints' = endpoints \o FastapiVisit(Len(files) + 1, f.defs, 1)
                /\ stderr' = stderr
    /\ UNCHANGED <<frontend, pc, schemas, doc, normIn, normOut,
                 typeIn, typeOut>>

\* main(): generate_openapi(None, result['endpoints'], result['schemas'])
FastapiGenerate ==
    /\ frontend = "fastapi"
    /\ pc = "generate"
    /\ IF GenerateRaises(endpoints)
       THEN pc' = "raised" /\ doc' = doc
       ELSE pc' = "done" /\ doc' = FastapiGenerateOpenapi(endpoints, schemas)
    /\ UNCHANGED <<frontend, files, endpoints, schemas, stderr, normIn, normOut,
                 typeIn, typeOut>>

\* SpringBootAnalyzer._analyze_file on the next enumerated file:
\* _parse_java_file appends each endpoint as it is found; an exception ends
\* the file with a warning, keeping what was appended before it.
SpringAnalyzeFile ==
    /\ frontend = "spring"
    /\ pc = "analyze"
    /\ Len(files) < MaxFiles
    /\ \E f \in SpringFiles :
        LET parsed == SpringParseJavaFile(f, 1, Len(files) + 1,
                                          SpringExtractClassAnnotations(f, 1))
        IN  /\ files' = Append(files, f)
            /\ endpoints' = endpoints \o parsed.endpoints
            /\ IF parsed.raised
               THEN /\ stderr' = Append(stderr, Warning("error", Len(files) + 1))
                    /\ schemas' = schemas
               ELSE /\ stderr' = stderr
                    /\ schemas' = SpringExtractSchemas(schemas, f)
    /\ UNCHANGED <<frontend, pc, doc, normIn, normOut,
                 typeIn, typeOut>>

\* main(): generate_openapi(None, result['endpoints'], result['schemas'])
SpringGenerate ==
    /\ frontend = "spring"
    /\ pc = "generate"
    /\ pc' = "done"
    /\ doc' = SpringGenerateOpenapi(endpoints, schemas)
    /\ UNCHANGED <<frontend, files, endpoints, schemas, stderr, normIn, normOut,
                 typeIn, typeOut>>

Next ==
    \/ FlaskAnalyzeFile
    \/ FastapiAnalyzeFile
    \/ SpringAnalyzeFile
    \/ AnalyzeReturn
    \/ FlaskGenerate
    \/ FastapiGenerate
    \/ SpringGenerate

Spec == Init /\ [][Next]_vars

(***************************************************************************)
(* The placeholder conversion on its own                                   *)
(***************************************************************************)
NormAlphabet == {"/", "<", ">", ":", "{", "}", "a"}

PathTemplates == UNION {[1..n -> NormAlphabet] : n \in 0..MaxPathLen}

InitNormalize ==
    /\ frontend = "flask"
    /\ pc = "normalize"
    /\ files = <<>>
    /\ endpoints = <<>>
    /\ schemas = <<>>
    /\ stderr = <<>>
    /\ doc = NoDoc
    /\ normIn \in PathTemplates
    /\ normOut = <<>>
    /\ typeIn = NoAnnotation
    /\ typeOut = <<>>

\* Convert the template, then convert the result again.
Normalize ==
    /\ pc = "normalize"
    /\ Len(normOut) < 2
    /\ normOut' = Append(normOut, ConvertedPath(IF normOut = <<>> THEN normIn
                                                ELSE normOut[Len(normOut)]))
    /\ UNCHANGED <<frontend, pc, files, endpoints, schemas, stderr, doc, normIn,
                 typeIn, typeOut>>

NextNormalize == Normalize

SpecNormalize == InitNormalize /\ [][NextNormalize]_vars

(***************************************************************************)
(* The type mappings on their own                                          *)
(***************************************************************************)
PyNames == {"str", "int", "float", "bool", "list", "dict", "Item", "List", "Optional"}

SubscriptValues == {AstName("List"), AstName("Optional"), AstName("Dict"), AstAttribute}

\* The annotations nested at most d deep.
RECURSIVE Annotations(_)
Annotations(d) ==
    IF d <= 1 THEN {AstName(id) : id \in PyNames} \cup {AstAttribute, AstTuple}
    ELSE LET inner == Annotations(d - 1)
         IN  inner \cup {AstSubscript(v, sl) : v \in SubscriptValues, sl \in inner}

\* The names of the closed table of _java_type_to_openapi.
JavaTableNames ==
    {"String", "Integer", "int", "Long", "long", "Double", "double", "Float",
     "float", "Boolean", "boolean", "LocalDate", "LocalDateTime", "UUID",
     "List", "Set", "void"}

JavaTypes == JavaTableNames \cup {"Item", "Model", "Map"} \cup JavaGenericTypes

InitTypes ==
    /\ pc = "types"
    /\ files = <<>>
    /\ endpoints = <<>>
    /\ schemas = <<>>
    /\ stderr = <<>>
    /\ doc = NoDoc
    /\ normIn = <<>>
    /\ normOut = <<>>
    /\ typeOut = <<>>
    /\ \/ frontend = "fastapi" /\ typeIn \in Annotations(MaxTypeDepth)
       \/ frontend = "spring" /\ typeIn \in JavaTypes

\* fastapi-analyzer.py maps the annotation.
FastapiMapType ==
    /\ frontend = "fastapi"
    /\ pc = "types"
    /\ typeOut = <<>>
    /\ typeOut' = <<FastapiParseTypeAnnotation(typeIn)>>
    /\ UNCHANGED <<frontend, pc, files, endpoints, schemas, stderr, doc, normIn,
                   normOut, typeIn>>

\* spring-analyzer.py maps the Java type.
SpringMapType ==
    /\ frontend = "spring"
    /\ pc = "types"
    /\ typeOut = <<>>
    /\ typeOut' = <<SpringJavaTypeToOpenapi(typeIn)>>
    /\ UNCHANGED <<frontend, pc, files, endpoints, schemas, stderr, doc, normIn,
                   normOut, typeIn>>

NextTypes == FastapiMapType \/ SpringMapType

SpecTypes == InitTypes /\ [][NextTypes]_vars

(***************************************************************************)
(* Properties                                                              *)
(***************************************************************************)
\* The operation the running script's generate_openapi builds for an endpoint.
OperationOf(e) ==
    CASE frontend = "flask" -> FlaskOperation(e)
      [] frontend = "fastapi" -> FastapiOperation(e)
      [] OTHER -> SpringOperation(e)

SameKey(e1, e2) == e1.path = e2.path /\ Lower(e1.method) = Lower(e2.method)

\* The first endpoint with the (path, method) of endpoints[i].
FirstSeen(i) ==
    endpoints[CHOOSE j \in 1..i :
        /\ SameKey(endpoints[j], endpoints[i])
        /\ \A k \in 1..(j - 1) : ~SameKey(endpoints[k], endpoints[i])]

\* The document's entry for the (path, method) of endpoint e.
EntryOf(e) == doc.paths[e.path][Lower(e.method)]

\* The later endpoints whose content differs from the first-seen endpoint of
\* their (path, method).
ConflictingDuplicates ==
    {i \in 1..Len(endpoints) : OperationOf(endpoints[i]) # OperationOf(FirstSeen(i))}

\* The conflict records among the warnings.
IsConflict(w) == w.kind = "conflict"
ConflictRecords == SelectSeq(stderr, IsConflict)

\* C1: the document's entry for a (path, method) is the operation built from
\* the first-seen endpoint with that (path, method).
C1_FirstSeenWins ==
    pc = "done" =>
        \A i \in 1..Len(endpoints) : EntryOf(endpoints[i]) = OperationOf(FirstSeen(i))

\* C2: every later endpoint with the (path, method) of an earlier one and
\* differing content adds exactly one conflict record, and no other endpoint
\* adds one.
C2_ConflictsReported ==
    pc = "done" => Len(ConflictRecords) = Cardinality(ConflictingDuplicates)

\* The (METHOD, path) pairs a Flask file declares: one per method of every
\* route decorator.
RECURSIVE FlaskDeclared(_, _, _)
FlaskDeclared(defs, i, d) ==
    IF i > Len(defs) THEN <<>>
    ELSE IF d > Len(defs[i].decorators) THEN FlaskDeclared(defs, i + 1, 1)
    ELSE LET dec == defs[i].decorators[d]
             ms  == IF dec.methods.kind = "list" THEN dec.methods.elts ELSE <<"GET">>
         IN  (IF dec.attr = "route"
              THEN [k \in 1..Len(ms) |-> <<Upper(ms[k]), dec.arg0.val>>]
              ELSE <<>>)
             \o FlaskDeclared(defs, i, d + 1)

\* The (METHOD, path) pairs a FastAPI file declares: one per verb decorator.
RECURSIVE FastapiDeclared(_, _, _)
FastapiDeclared(defs, i, d) ==
    IF i > Len(defs) THEN <<>>
    ELSE IF d > Len(defs[i].decorators) THEN FastapiDeclared(defs, i + 1, 1)
    ELSE LET dec == defs[i].decorators[d]
         IN  (IF dec.attr \in FastapiVerbs
              THEN <<<<Upper(dec.attr), dec.arg0.val>>>> ELSE <<>>)
             \o FastapiDeclared(defs, i, d + 1)

\* A mapping annotation directly above the class declaration is class-level.
IsClassLevel(lines, i) ==
    /\ lines[i].mapping # ""
    /\ i < Len(lines)
    /\ lines[i + 1].className # None

IsMethodLevel(lines, i) == lines[i].mapping # "" /\ ~IsClassLevel(lines, i)

\* The base path the class-level annotation of a Java file declares.
RECURSIVE ClassBase(_, _)
ClassBase(lines, i) ==
    IF i > Len(lines) THEN <<>>
    ELSE IF IsClassLevel(lines, i) THEN lines[i].attrLit \o lines[i].shortLit
    ELSE ClassBase(lines, i + 1)

\* The path literal of the mapping annotation on a line; "/" when it has none.
MethodPath(line) ==
    IF line.attrLit \o line.shortLit = <<>> THEN <<"/">>
    ELSE line.attrLit \o line.shortLit

RECURSIVE StripRight(_)
StripRight(b) ==
    IF b # <<>> /\ b[Len(b)] = "/" THEN StripRight(SubSeq(b, 1, Len(b) - 1)) ELSE b

RECURSIVE StripLeft(_)
StripLeft(b) ==
    IF b # <<>> /\ b[1] = "/" THEN StripLeft(Tail(b)) ELSE b

\* Base and method path joined with exactly one separating slash.
OneSlashJoin(base, path) == StripRight(base) \o <<"/">> \o StripLeft(path)

\* The (METHOD, path) pairs the method-level annotations of a Java file declare.
RECURSIVE SpringDeclared(_, _)
SpringDeclared(lines, i) ==
    IF i > Len(lines) THEN <<>>
    ELSE (IF IsMethodLevel(lines, i)
          THEN <<<<IF lines[i].mapping = "Request" THEN "GET" ELSE Upper(lines[i].mapping),
                   IF ClassBase(lines, 1) = <<>> THEN MethodPath(lines[i])
                   ELSE OneSlashJoin(ClassBase(lines, 1), MethodPath(lines[i]))>>>>
          ELSE <<>>)
         \o SpringDeclared(lines, i + 1)

\* The route declarations of the files analyzed so far.
RECURSIVE Declared(_)
Declared(n) ==
    IF n = 0 THEN <<>>
    ELSE Declared(n - 1) \o
         (CASE frontend = "flask" -> FlaskDeclared(files[n].defs, 1, 1)
            [] frontend = "fastapi" -> FastapiDeclared(files[n].defs, 1, 1)
            [] OTHER -> SpringDeclared(files[n], 1))

\* Every route registration of the Python files has a literal string path.
AllLiteral ==
    frontend \in {"flask", "fastapi"} =>
        \A n \in 1..Len(files) : \A i \in 1..Len(files[n].defs) :
            \A d \in 1..Len(files[n].defs[i].decorators) :
                files[n].defs[i].decorators[d].arg0.kind = "str"

\* The (path, method) entries of the document.
Entries == UNION {{<<k, m>> : m \in DOMAIN doc.paths[k]} : k \in DOMAIN doc.paths}

\* No Java file analyzed so far has a class-level mapping annotation.
NoClassLevelMapping ==
    frontend = "spring" => \A n \in 1..Len(files) : ClassBase(files[n], 1) = <<>>

\* No FastAPI handler of the analyzed files is an async def.
NoAsyncDefs ==
    frontend = "fastapi" =>
        \A n \in 1..Len(files) : \A i \in 1..Len(files[n].defs) : ~files[n].defs[i].async

\* C3: N route declarations with pairwise distinct (method, path) give a
\* document with exactly N path-method entries and zero conflicts (stated
\* for the runs in which every file was analyzed without a warning, every
\* route path is a literal string and no class declares a base path).
C3_DistinctDeclarationsAllEntered ==
    LET decls == Declared(Len(files))
    IN  (/\ pc = "done"
         /\ AllLiteral
         /\ stderr = <<>>
         /\ NoClassLevelMapping
         /\ NoAsyncDefs
         /\ \A i, j \in 1..Len(decls) : i # j => decls[i] # decls[j])
        => /\ Cardinality(Entries) = Len(decls)
           /\ ConflictRecords = <<>>

\* The path with every angle-bracket placeholder, typed or untyped, replaced
\* by {name}.
RECURSIVE CanonicalPath(_, _)
CanonicalPath(s, i) ==
    IF i > Len(s) THEN <<>>
    ELSE LET m == FlaskPlaceholderAt(s, i)
             typed == m.ok /\ s[m.end - Len(m.g2) - 1] = ":"
         IN  IF m.ok
             THEN <<"{">> \o (IF typed THEN m.g2 ELSE m.g1) \o <<"}">>
                  \o CanonicalPath(s, m.end + 1)
             ELSE <<s[i]>> \o CanonicalPath(s, i + 1)

\* C4: no path key of the document has the source idiom's angle brackets,
\* and every route is entered under its path in {name} syntax.
C4_UniformPlaceholders ==
    pc = "done" =>
        /\ \A key \in DOMAIN doc.paths : \A i \in 1..Len(key) : key[i] \notin {"<", ">"}
        /\ \A i \in 1..Len(endpoints) :
            CanonicalPath(endpoints[i].path, 1) \in DOMAIN doc.paths

\* The parameters the placeholders of a path stand for: <type:name> gives
\* name with the mapping of type, <name> gives name with string.
RECURSIVE PlaceholderParams(_, _)
PlaceholderParams(s, i) ==
    IF i > Len(s) THEN <<>>
    ELSE LET m == FlaskPlaceholderAt(s, i)
             typed == m.ok /\ s[m.end - Len(m.g2) - 1] = ":"
         IN  IF m.ok
             THEN <<[name |-> IF typed THEN m.g2 ELSE m.g1,
                     in |-> "path",
                     required |-> TRUE,
                     schema |-> [type |-> IF typed THEN FlaskTypeToOpenapi(m.g1)
                                          ELSE "string"]]>>
                  \o PlaceholderParams(s, m.end + 1)
             ELSE PlaceholderParams(s, i + 1)

\* C5: every angle-bracket placeholder of a route's path, typed or untyped,
\* gives the operation a path parameter named exactly as the placeholder,
\* required, with the mapped type (string when untyped).
C5_PlaceholderParameters ==
    (frontend = "flask" /\ pc = "done") =>
        \A i \in 1..Len(endpoints) :
            EntryOf(endpoints[i]).parameters = PlaceholderParams(endpoints[i].path, 1)

\* C6: converting a path template twice gives what converting it once gives.
C6_NormalizeIdempotent ==
    Len(normOut) = 2 => normOut[2] = normOut[1]

\* A template with a typed placeholder was converted twice.
C6_Witness ==
    /\ Len(normOut) = 2
    /\ \E i \in 1..Len(normIn) :
        FlaskPlaceholderAt(normIn, i).ok /\ FlaskPlaceholderAt(normIn, i).g2 # <<>>
    /\ normOut[1] # normIn

\* The operations of the document.
Operations == {doc.paths[km[1]][km[2]] : km \in Entries}

\* C7: every parameter with in = "path" of every operation is required.
C7_PathParametersRequired ==
    pc = "done" =>
        \A op \in Operations : \A k \in 1..Len(op.parameters) :
            op.parameters[k].in = "path" => op.parameters[k].required = TRUE

\* A FastAPI handler whose argument has a default value and is named by a
\* placeholder of the route's path got its operation, with a path parameter.
C7_Witness ==
    /\ frontend = "fastapi"
    /\ pc = "done"
    /\ \E i \in 1..Len(endpoints) :
        LET node == files[endpoints[i].file].defs[endpoints[i].line]
        IN  \E a \in 1..Len(node.args) :
            /\ node.args[a].hasDefault
            /\ Contains(endpoints[i].path, <<"{">> \o node.args[a].arg \o <<"}">>)
            /\ \E k \in 1..Len(EntryOf(endpoints[i]).parameters) :
                /\ EntryOf(endpoints[i]).parameters[k].name = node.args[a].arg
                /\ EntryOf(endpoints[i]).parameters[k].in = "path"

\* C8: the parameter names of every operation are pairwise distinct.
C8_ParameterNamesUnique ==
    pc = "done" =>
        \A op \in Operations : \A j, k \in 1..Len(op.parameters) :
            j # k => op.parameters[j].name # op.parameters[k].name

\* The arguments of a handler other than self and cls.
RECURSIVE ApiArgs(_, _)
ApiArgs(args, i) ==
    IF i > Len(args) THEN <<>>
    ELSE (IF IsSelfOrCls(args[i].arg) THEN <<>> ELSE <<args[i]>>) \o ApiArgs(args, i + 1)

\* C9: each handler argument other than self/cls is one parameter, in the
\* path if the route's path has its {name} placeholder and in the query
\* otherwise, required unless it has a default, whose literal the schema keeps.
C9_ArgumentParameters ==
    frontend = "fastapi" =>
        \A i \in 1..Len(endpoints) :
            LET e    == endpoints[i]
                args == ApiArgs(files[e.file].defs[e.line].args, 1)
            IN  /\ Len(e.parameters) = Len(args)
                /\ \A k \in 1..Len(args) :
                    /\ e.parameters[k].name = args[k].arg
                    /\ e.parameters[k].in =
                        (IF Contains(e.path, <<"{">> \o args[k].arg \o <<"}">>)
                         THEN "path" ELSE "query")
                    /\ e.parameters[k].required = ~args[k].hasDefault
                    /\ args[k].hasDefault =>
                        /\ "default" \in DOMAIN e.parameters[k].schema
                        /\ e.parameters[k].schema.default = args[k].default

\* The annotations the decorator analyzer resolves: a name of its table,
\* List[T] and Optional[T].
PyResolved(a) ==
    \/ a.node = "Name" /\ a.id \in {"str", "int", "float", "bool", "list", "dict"}
    \/ /\ a.node = "Subscript"
       /\ a.value \in {AstName("List"), AstName("Optional")}

\* The Java types the annotation analyzer resolves: a name of its table, or
\* a generic type whose base is one.
JavaResolved(t) == JavaSplitAngle(t) \in JavaTableNames

C10_BasePathOneSlash ==
    frontend = "spring" =>
        \A i \in 1..Len(endpoints) :
            LET e     == endpoints[i]
                lines == files[e.file]
            IN  (IsMethodLevel(lines, e.line) /\ ClassBase(lines, 1) # <<>>)
                => e.path = OneSlashJoin(ClassBase(lines, 1), MethodPath(lines[e.line]))

\* The route decorator an endpoint of a Python file was built from.
RouteOf(e) ==
    LET node == files[e.file].defs[e.line]
    IN  IF frontend = "flask" THEN FlaskGetRouteDecorator(node.decorators, 1)
        ELSE FastapiGetRouteDecorator(node.decorators, 1)

\* C11: the path of every endpoint of a file whose router is constructed
\* with a prefix keyword is the prefix followed by the route's own path, and
\* the document has the operation under that path.
C11_RouterPrefixPrepended ==
    (frontend = "fastapi" /\ pc = "done") =>
        \A i \in 1..Len(endpoints) :
            LET prefix == files[endpoints[i].file].prefix
                own    == RouteOf(endpoints[i]).arg0.val
            IN  prefix # <<>> =>
                    /\ endpoints[i].path = prefix \o own
                    /\ (prefix \o own) \in DOMAIN doc.paths

\* No route registration of the files analyzed so far has a literal that is
\* no string as its first positional argument.
NoIntPaths ==
    \A n \in 1..Len(files) : \A i \in 1..Len(files[n].defs) :
        \A d \in 1..Len(files[n].defs[i].decorators) :
            files[n].defs[i].decorators[d].arg0.kind # "int"

\* C12: no endpoint comes from a route registration whose first positional
\* argument is an expression and no literal, and such a registration makes
\* nothing raise.
C12_NonLiteralPathExcluded ==
    frontend \in {"flask", "fastapi"} =>
        /\ \A i \in 1..Len(endpoints) : RouteOf(endpoints[i]).arg0.kind # "expr"
        /\ NoIntPaths => pc # "raised"

\* What _analyze_file collects from the n-th file of a Python run: nothing
\* from a file that does not parse or whose visit raises.
FileEndpoints(n) ==
    IF ~files[n].parseable THEN <<>>
    ELSE IF frontend = "flask" THEN FlaskVisit(n, files[n].defs, 1)
    ELSE IF \E i \in 1..Len(files[n].defs) : FastapiVisitRaises(files[n].defs[i])
         THEN <<>>
    ELSE FastapiVisit(n, files[n].defs, 1)

RECURSIVE Collected(_)
Collected(n) == IF n = 0 THEN <<>> ELSE Collected(n - 1) \o FileEndpoints(n)

C14_AtomicPerFileMerge ==
    [][(Len(files') = Len(files) + 1 /\ Len(stderr') = Len(stderr) + 1)
       => (endpoints' = endpoints /\ schemas' = schemas)]_vars

\* C15: neither analyze nor generate_openapi raises.
C15_NeverRaises == pc # "raised"

\* C16: a run that extracted no endpoint ends with the empty well-formed
\* document and never with an error.
C16_EmptyDocumentWellFormed ==
    endpoints = <<>> =>
        /\ pc # "raised"
        /\ pc = "done" =>
            /\ doc.openapi = "3.0.0"
            /\ DOMAIN doc = {"openapi", "info", "paths", "components"}
            /\ DOMAIN doc.info = {"title", "version", "description"}
            /\ doc.paths = <<>>
            /\ "schemas" \in DOMAIN doc.components

\* A run over files that gave no endpoint returned its document.
C16_Witness ==
    /\ pc = "done"
    /\ files # <<>>
    /\ endpoints = <<>>
    /\ doc.paths = <<>>

\* The (type, name) pairs a Java parameter list declares: a type word
\* directly followed by a name word; annotations are no part of a pair.
RECURSIVE DeclaredParams(_, _)
DeclaredParams(tokens, i) ==
    IF i >= Len(tokens) THEN <<>>
    ELSE IF tokens[i].k = "word" /\ tokens[i + 1].k = "word"
         THEN <<[type |-> tokens[i].w, name |-> tokens[i + 1].w]>>
              \o DeclaredParams(tokens, i + 2)
         ELSE DeclaredParams(tokens, i + 1)

\* The framework-injected carrier types.
CarrierTypes == {"Model", "ModelMap", "HttpServletRequest", "HttpServletResponse"}

IsApiParam(p) == p.type \notin CarrierTypes

\* The parameter list of the method a method-level annotation stands on.
MethodParams(lines, start) ==
    lines[SpringFindSignatureLine(lines, start, Len(lines))].params

\* C17: the parameters of an endpoint are the declared parameters of its
\* method whose type is no carrier type, each under its declared name with
\* its declared type (stated for parameter lists without annotations).
C17_CarrierParametersFiltered ==
    frontend = "spring" =>
        \A i \in 1..Len(endpoints) :
            LET e      == endpoints[i]
                lines  == files[e.file]
                tokens == MethodParams(lines, e.line)
                api    == SelectSeq(DeclaredParams(tokens, 1), IsApiParam)
            IN  (/\ IsMethodLevel(lines, e.line)
                 /\ \A t \in 1..Len(tokens) : tokens[t].k # "at")
                => /\ Len(e.parameters) = Len(api)
                   /\ \A k \in 1..Len(api) :
                        /\ e.parameters[k].name = api[k].name
                        /\ e.parameters[k].schema.type = SpringJavaTypeToOpenapi(api[k].type)

\* The text the documentation precedence selects: the keyword's value if
\* present, else the docstring if present, else "{METHOD} {path}".
Precedence(keyword, docstring, e) ==
    IF keyword # NoneText THEN keyword
    ELSE IF docstring # NoneText THEN docstring
    ELSE <<e.method, " ">> \o e.path

\* The summary keyword, the description keyword and the docstring of the
\* handler an endpoint was built from (NoneText when absent).  The route call
\* of Flask takes no summary or description keyword.
DocFacts(e) ==
    LET node == files[e.file].defs[e.line]
    IN  IF frontend = "flask"
        THEN [summary |-> NoneText, description |-> NoneText,
              docstring |-> IF node.doc = None THEN NoneText ELSE <<node.doc>>]
        ELSE [summary |-> RouteOf(e).summary, description |-> RouteOf(e).description,
              docstring |-> node.docscan]

\* The summary and the description of the operation built for an endpoint,
\* as texts.
DocTexts(e) ==
    LET op == OperationOf(e)
    IN  IF frontend = "flask"
        THEN [summary |-> <<op.summary>>, description |-> <<op.description>>]
        ELSE [summary |-> op.summary, description |-> op.description]

\* C18: summary and description of every operation of the decorator
\* analyzers each are the keyword's value if present, else the docstring if
\* present, else "{METHOD} {path}".
C18_DocumentationPrecedence ==
    (frontend \in {"flask", "fastapi"} /\ pc = "done") =>
        \A i \in 1..Len(endpoints) :
            LET e == endpoints[i]
                f == DocFacts(e)
            IN  /\ DocTexts(e).summary = Precedence(f.summary, f.docstring, e)
                /\ DocTexts(e).description = Precedence(f.description, f.docstring, e)

\* The schemas the n-th Java file of the run defines (none when its
\* analysis ended with an exception).
FileSchemas(n) ==
    IF SpringParseJavaFile(files[n], 1, n, SpringExtractClassAnnotations(files[n], 1)).raised
    THEN <<>>
    ELSE SpringExtractSchemas(<<>>, files[n])

\* The first file of the run that defines a schema called name.
FirstDefining(name) ==
    CHOOSE n \in 1..Len(files) :
        /\ name \in DOMAIN FileSchemas(n)
        /\ \A k \in 1..(n - 1) : name \notin DOMAIN FileSchemas(k)

\* The later definitions of a schema name that differ from the first-seen one.
SchemaCollisions ==
    {n \in 1..Len(files) :
        \E name \in DOMAIN FileSchemas(n) :
            FileSchemas(n)[name] # FileSchemas(FirstDefining(name))[name]}

\* C20: components.schemas keeps the first-seen definition of every schema
\* name, and every later definition with differing fields is recorded as a
\* warning.
C20_SchemaFirstSeenWins ==
    (frontend = "spring" /\ pc = "done") =>
        /\ \A name \in DOMAIN doc.components.schemas :
            doc.components.schemas[name] = FileSchemas(FirstDefining(name))[name]
        /\ Len(SelectSeq(stderr, IsConflict)) = Cardinality(SchemaCollisions)

\* The fields a Java file declares, in declaration order.
RECURSIVE DeclaredFields(_, _)
DeclaredFields(lines, i) ==
    IF i > Len(lines) THEN <<>>
    ELSE lines[i].declares \o DeclaredFields(lines, i + 1)

\* Every match of the field scan in the file is a field declaration.
OnlyFieldsMatched(lines) ==
    \A i \in 1..Len(lines) : lines[i].field # <<>> => lines[i].field = lines[i].declares

\* The last file of the run that defines a schema called name.
LastDefining(name) ==
    CHOOSE n \in 1..Len(files) :
        /\ name \in DOMAIN FileSchemas(n)
        /\ \A k \in (n + 1)..Len(files) : name \notin DOMAIN FileSchemas(k)

\* C21: the properties of every extracted schema are the fields its class
\* declares, one property per declared field and nothing else, in the order
\* of declaration.
C21_PropertiesInDeclarationOrder ==
    (frontend = "spring" /\ pc = "done") =>
        \A name \in DOMAIN doc.components.schemas :
            LET lines == files[LastDefining(name)]
                props == doc.components.schemas[name].properties
                decl  == DeclaredFields(lines, 1)
            IN  OnlyFieldsMatched(lines) =>
                    /\ Len(props) = Len(decl)
                    /\ \A k \in 1..Len(props) : props[k].name = decl[k][2]

\* The endpoints the running script collects from file f, analyzed as the
\* n-th file of a run.
EndpointsOf(f, n) ==
    CASE frontend = "flask" ->
            IF f.parseable THEN FlaskVisit(n, f.defs, 1) ELSE <<>>
      [] frontend = "fastapi" ->
            IF f.parseable /\ ~\E i \in 1..Len(f.defs) : FastapiVisitRaises(f.defs[i])
            THEN FastapiVisit(n, f.defs, 1) ELSE <<>>
      [] OTHER ->
            SpringParseJavaFile(f, 1, n, SpringExtractClassAnnotations(f, 1)).endpoints

\* The endpoints and schemas of a run that analyzes fs[1..n] in this order.
RECURSIVE EndpointsOfRun(_, _)
EndpointsOfRun(fs, n) ==
    IF n = 0 THEN <<>> ELSE EndpointsOfRun(fs, n - 1) \o EndpointsOf(fs[n], n)

RECURSIVE SchemasOfRun(_, _)
SchemasOfRun(fs, n) ==
    IF n = 0 THEN <<>>
    ELSE IF /\ frontend = "spring"
            /\ ~SpringParseJavaFile(fs[n], 1, n,
                                    SpringExtractClassAnnotations(fs[n], 1)).raised
         THEN SpringExtractSchemas(SchemasOfRun(fs, n - 1), fs[n])
         ELSE SchemasOfRun(fs, n - 1)

\* The document of a run that analyzes the files fs in this order.
DocumentOf(fs) ==
    LET eps  == EndpointsOfRun(fs, Len(fs))
        schs == SchemasOfRun(fs, Len(fs))
    IN  CASE frontend = "flask" -> FlaskGenerateOpenapi(eps, schs)
          [] frontend = "fastapi" -> FastapiGenerateOpenapi(eps, schs)
          [] OTHER -> SpringGenerateOpenapi(eps, schs)

\* The files of the run, enumerated in another order.
Reordered(p) == [i \in 1..Len(files) |-> files[p[i]]]

\* C22: the document of a run is the document of every run over the same
\* files enumerated in another order.
C22_EnumerationOrderIndependent ==
    pc = "done" =>
        /\ doc = DocumentOf(files)
        /\ \A p \in Permutations(1..Len(files)) :
              DocumentOf(Reordered(p)) = doc

\* Did the analysis of file f end without an exception?
Analyzed(f) ==
    CASE frontend = "flask" -> f.parseable
      [] frontend = "fastapi" ->
            f.parseable /\ ~\E i \in 1..Len(f.defs) : FastapiVisitRaises(f.defs[i])
      [] OTHER ->
            ~SpringParseJavaFile(f, 1, 1, SpringExtractClassAnnotations(f, 1)).raised

\* The endpoints of the successfully analyzed files among files[1..n],
\* concatenated in enumeration order.
RECURSIVE MergedInOrder(_)
MergedInOrder(n) ==
    IF n = 0 THEN <<>>
    ELSE MergedInOrder(n - 1)
         \o (IF Analyzed(files[n]) THEN EndpointsOf(files[n], n) ELSE <<>>)

\* C23: the shared endpoint list is the concatenation, in enumeration order,
\* of the endpoints of each successfully analyzed file.
C23_MergeInEnumerationOrder == endpoints = MergedInOrder(Len(files))

HttpMethods == {"GET", "POST", "PUT", "DELETE", "PATCH", "OPTIONS", "HEAD", "TRACE"}

\* The positions in endpoints of the endpoints of function i of file n.
EndpointsAt(n, i) ==
    {k \in 1..Len(endpoints) : endpoints[k].file = n /\ endpoints[k].line = i}

\* C24: every endpoint's method is one of the eight upper-case HTTP methods;
\* a Flask route registration yields one endpoint per method of its explicit
\* method list and exactly one GET endpoint when it has no list.
C24_MethodsFromClosedSet ==
    /\ \A k \in 1..Len(endpoints) : endpoints[k].method \in HttpMethods
    /\ frontend = "flask" =>
        \A n \in 1..Len(files) : \A i \in 1..Len(files[n].defs) :
            LET node == files[n].defs[i]
                dec  == node.decorators[1]
            IN  (Len(node.decorators) = 1 /\ dec.attr = "route") =>
                    IF dec.methods.kind = "list"
                    THEN Cardinality(EndpointsAt(n, i)) = Len(dec.methods.elts)
                    ELSE /\ Cardinality(EndpointsAt(n, i)) = 1
                         /\ \A k \in EndpointsAt(n, i) : endpoints[k].method = "GET"

\* The classes of a Java file declared right under an entity/data marker
\* annotation.
MarkedClasses(lines) ==
    {lines[j + 1].className :
        j \in {i \in 1..(Len(lines) - 1) :
                 /\ lines[i].marker
                 /\ lines[i].lead = "@"
                 /\ lines[i + 1].className # None}}

\* C25: every analyzed Java file that declares a marked class yields a
\* components.schemas entry for that class, whether or not the file
\* contains a controller.
C25_MarkedClassesHaveSchemas ==
    (frontend = "spring" /\ pc = "done") =>
        \A n \in 1..Len(files) :
            Analyzed(files[n]) =>
                \A c \in MarkedClasses(files[n]) : c \in DOMAIN doc.components.schemas

\* The functions of a FastAPI file that carry an HTTP-verb decorator.
RouteFunctions(defs) ==
    {i \in 1..Len(defs) :
        \E d \in 1..Len(defs[i].decorators) : defs[i].decorators[d].attr \in FastapiVerbs}

\* C26: a parseable FastAPI file with k verb-decorated functions, at top
\* level or in a class, def or async def, contributes exactly k endpoints.
C26_EveryRouteFunctionContributes ==
    (frontend = "fastapi" /\ AllLiteral) =>
        \A n \in 1..Len(files) :
            files[n].parseable =>
                Cardinality({k \in 1..Len(endpoints) : endpoints[k].file = n})
                    = Cardinality(RouteFunctions(files[n].defs))

\* The names of Python's primitive annotations.
PrimitiveNames == {"str", "int", "float", "bool", "list", "dict"}

\* C27: every requestBody of the document refers to a schema that is present
\* in components.schemas, and no requestBody is attached for an argument
\* with a primitive annotation.
C27_RequestBodyRefsResolve ==
    (frontend = "fastapi" /\ pc = "done") =>
        \A op \in Operations :
            op.requestBody # None =>
                /\ op.requestBody \in DOMAIN doc.components.schemas
                /\ op.requestBody \notin PrimitiveNames

\* C28: every endpoint of a Java file comes from a method-level mapping
\* annotation, never from the class-level one, and the base path used for a
\* file is the literal of its class-level annotation.
C28_ClassLevelMappingIsPrefixOnly ==
    frontend = "spring" =>
        /\ \A k \in 1..Len(endpoints) :
              IsMethodLevel(files[endpoints[k].file], endpoints[k].line)
        /\ \A n \in 1..Len(files) :
              SpringExtractClassAnnotations(files[n], 1) = ClassBase(files[n], 1)

\* C29: in a Java file without base path, the path of every method-level
\* endpoint is the literal of its own mapping annotation, "/" when that
\* annotation has none.
C29_PathFromOwnAnnotation ==
    frontend = "spring" =>
        \A k \in 1..Len(endpoints) :
            LET e     == endpoints[k]
                lines == files[e.file]
            IN  (/\ IsMethodLevel(lines, e.line)
                 /\ SpringExtractClassAnnotations(lines, 1) = <<>>)
                => e.path = MethodPath(lines[e.line])

OpenapiTypes == {"string", "integer", "number", "boolean", "array", "object"}

\* C30: every type of a parameter, response or schema property of the
\* document is an OpenAPI type, and every schema property is a field its
\* class declares.
C30_OnlyOpenapiTypes ==
    pc = "done" =>
        /\ \A op \in Operations :
              /\ \A k \in 1..Len(op.parameters) :
                    op.parameters[k].schema.type \in OpenapiTypes
              /\ "content" \in DOMAIN op.responses.r200 =>
                    op.responses.r200.content.type \in OpenapiTypes
        /\ frontend = "spring" =>
              \A name \in DOMAIN doc.components.schemas :
                  LET props == doc.components.schemas[name].properties
                      decl  == DeclaredFields(files[LastDefining(name)], 1)
                  IN  \A k \in 1..Len(props) :
                        /\ props[k].type \in OpenapiTypes
                        /\ \E j \in 1..Len(decl) : decl[j][2] = props[k].name

====
